---- MODULE Spec2Model ----
(***************************************************************************)
(* Web3ContextProvider (src/hooks/web3Context.tsx): the wallet session of  *)
(* the olympus frontend.  The state is the four React state cells          *)
(* (connected, address, provider, chainChanged), the Web3Modal cache, the  *)
(* listeners registered on raw wallet providers, the pending reload timers *)
(* and the position of every connect() invocation and of the mount         *)
(* effect's health check.                                                  *)
(*                                                                         *)
(* Encoding of JavaScript values:                                          *)
(*   - a string is a sequence; "" is << >>;                                *)
(*   - a raw provider object is a record [kind, id, on]; `on` says whether *)
(*     the object has an `on` method;                                      *)
(*   - a Web3Provider / StaticJsonRpcProvider object is a record           *)
(*     [kind, raw]; `raw` is the raw provider it wraps;                    *)
(*   - an element of the health check's result is <<"uri", k>> (the URI of *)
(*     candidate k) or <<"false">> (the boolean false).                    *)
(***************************************************************************)
EXTENDS Integers, Sequences, FiniteSets, TLC

\* ---- bounds ----
\* connect() invocations per page load
MaxCalls == 2
\* wallets the picker offers that have an `on` method
MaxWallets == 1
\* pending reload timers
MaxTimers == 2
\* candidate endpoints of the network
MaxCandidates == 2

VARIABLES
    connected,       \* useState(false)                               line 57
    address,         \* useState("")                                  line 58
    provider,        \* useState(new StaticJsonRpcProvider(""))       line 59
    chainChanged,    \* useState(true)                                line 60
    cachedProvider,  \* web3Modal.cachedProvider (persisted by the connector)
    iframe,          \* window.location !== window.parent.location
    listeners,       \* per raw provider: how many times the handlers were registered
    timers,          \* number of pending setTimeout(() => reload(), 1)
    pc,              \* per connect() invocation: where it is
    raw,             \* per connect() invocation: its local rawProvider
    boot,            \* the mount effect: is the health check still running
    last             \* the step taken last

vars == <<connected, address, provider, chainChanged, cachedProvider, iframe,
          listeners, timers, pc, raw, boot, last>>

\* ---- values ----
Calls == 1..MaxCalls

EmptyString == << >>

NoRaw == [kind |-> "none", id |-> 0, on |-> FALSE]

\* what web3Modal.connect() can resolve to: the provider object of wallet k;
\* wallet 0 stands for a provider object without an `on` method
Injected == {[kind |-> "injected", id |-> k, on |-> k > 0] : k \in 0..MaxWallets}

\* new IFrameEthereumProvider(), built by invocation i: an event emitter
Frame(i) == [kind |-> "iframe", id |-> i, on |-> TRUE]

RawProviders == Injected \cup {Frame(i) : i \in Calls}

\* the JavaScript null, as a value of the provider cell
NullProvider == [kind |-> "null", raw |-> NoRaw]

\* new StaticJsonRpcProvider("")
StaticJsonRpcProvider == [kind |-> "static", raw |-> NoRaw]

\* new Web3Provider(rawProvider, "any")
Web3Provider(h) == [kind |-> "web3", raw |-> h]

\* connectedProvider.getSigner().getAddress() when it resolves: the account
\* of the wallet behind the raw provider, a non-empty string; every
\* IFrameEthereumProvider talks to the one wallet of the parent window
getAddress(h) == IF h.kind = "iframe" THEN <<"parent">> ELSE <<"wallet", h.id>>

JSFalse == <<"false">>

Uri(k) == <<"uri", k>>

\* the URIs the store can hold: a candidate's, or one that is no candidate
Uris == {Uri(k) : k \in 1..(MaxCandidates + 1)}

\* the record of a step: the operation or callback that ran, the connect()
\* invocation it belongs to, what it returned or threw, and for the health
\* check what it was given
Step(op, i, ret) == [op |-> op, i |-> i, ret |-> ret, stale |-> FALSE, retry |-> FALSE]

\* ---- mount ----
\* mutant: the flag starts cleared
InitialChainChanged_false == FALSE

\* useState(true), line 60
InitialChainChanged == TRUE

\* the state of a freshly mounted Web3ContextProvider
Mounted ==
    [connected |-> FALSE,
     address |-> EmptyString,
     provider |-> StaticJsonRpcProvider,
     chainChanged |-> InitialChainChanged,
     listeners |-> [h \in RawProviders |-> 0],
     timers |-> 0,
     pc |-> [i \in Calls |-> "idle"],
     raw |-> [i \in Calls |-> NoRaw],
     boot |-> "probing"]

\* the connector's cache (browser storage) and the embedding of the window
\* are the environment's
Init ==
    /\ connected = Mounted.connected
    /\ address = Mounted.address
    /\ provider = Mounted.provider
    /\ chainChanged = Mounted.chainChanged
    /\ listeners = Mounted.listeners
    /\ timers = Mounted.timers
    /\ pc = Mounted.pc
    /\ raw = Mounted.raw
    /\ boot = Mounted.boot
    /\ cachedProvider \in {EmptyString, <<"injected">>}
    /\ iframe \in BOOLEAN
    /\ last = Step("mount", 0, "")

\* mutant: the comparison of line 14 inverted
isIframe_inverted == ~iframe

\* ---- isIframe ----
isIframe == iframe

\* ---- hasCachedProvider, onChainChangeComplete ----
hasCachedProvider == cachedProvider # EmptyString

HasCachedProviderCall ==
    /\ last' = Step("hasCachedProvider", 0, IF hasCachedProvider THEN "true" ELSE "false")
    /\ UNCHANGED <<connected, address, provider, chainChanged, cachedProvider,
                   iframe, listeners, timers, pc, raw, boot>>

\* mutant: acknowledging the chain change also marks the session disconnected
onChainChangeComplete_disconnects ==
    /\ chainChanged' = FALSE
    /\ connected' = FALSE
    /\ last' = Step("onChainChangeComplete", 0, "")
    /\ UNCHANGED <<address, provider, cachedProvider, iframe,
                   listeners, timers, pc, raw, boot>>

onChainChangeComplete ==
    /\ chainChanged' = FALSE
    /\ last' = Step("onChainChangeComplete", 0, "")
    /\ UNCHANGED <<connected, address, provider, cachedProvider, iframe,
                   listeners, timers, pc, raw, boot>>

\* mutant: the handlers are registered without looking for `on`
initListeners_unguarded(h) ==
    [listeners EXCEPT ![h] = @ + 1]

\* ---- _initListeners ----
\* the listener table after _initListeners(rawProvider)
initListeners(h) ==
    IF ~h.on
        THEN listeners
        ELSE [listeners EXCEPT ![h] = @ + 1]

\* mutant: the account switch schedules nothing
onAccountsChanged_noReload(h) ==
    /\ UNCHANGED timers
    /\ UNCHANGED chainChanged

\* mutant: a chain change reloads the page as an account switch does
onChainChanged_reloads(h) ==
    /\ timers + listeners[h] <= MaxTimers
    /\ chainChanged' = TRUE
    /\ timers' = timers + listeners[h]

\* the handlers; every registration of a handler runs once per event
onAccountsChanged(h) ==
    /\ timers + listeners[h] <= MaxTimers
    /\ timers' = timers + listeners[h]
    /\ UNCHANGED chainChanged

onChainChanged(h) ==
    /\ chainChanged' = TRUE
    /\ UNCHANGED timers

\* mutant: the legacy event is ignored
onNetworkChanged_ignored(h) ==
    /\ UNCHANGED chainChanged
    /\ UNCHANGED timers

onNetworkChanged(h) ==
    /\ chainChanged' = TRUE
    /\ UNCHANGED timers

\* the wallet emits an event on a raw provider that has handlers registered
ProviderEvent(h, kind) ==
    /\ listeners[h] > 0
    /\ CASE kind = "accountsChanged" -> onAccountsChanged(h)
         [] kind = "chainChanged" -> onChainChanged(h)
         [] kind = "networkChanged" -> onNetworkChanged(h)
    /\ last' = Step(kind, 0, "")
    /\ UNCHANGED <<connected, address, provider, cachedProvider, iframe,
                   listeners, pc, raw, boot>>

\* ---- connect ----
\* lines 129-133: from the raw provider to the await of getAddress()
wire(i, h) ==
    /\ listeners' = initListeners(h)
    /\ provider' = Web3Provider(h)
    /\ raw' = [raw EXCEPT ![i] = h]
    /\ pc' = [pc EXCEPT ![i] = "awaitAddress"]

\* connect() is called: lines 118-125, and in an iframe on to line 133
connect(i) ==
    /\ pc[i] = "idle"
    /\ \A j \in 1..(i - 1) : pc[j] # "idle"
    /\ IF isIframe
          THEN /\ wire(i, Frame(i))
               /\ last' = Step("connect", i, "bridge")
          ELSE /\ pc' = [pc EXCEPT ![i] = "awaitModal"]
               /\ last' = Step("connect", i, "picker")
               /\ UNCHANGED <<raw, listeners, provider>>
    /\ UNCHANGED <<connected, address, chainChanged, cachedProvider, iframe,
                   timers, boot>>

\* web3Modal.connect() resolves with the chosen wallet's provider; the
\* connector was built with cacheProvider: true and remembers the choice
ModalResolve(i, h) ==
    /\ pc[i] = "awaitModal"
    /\ cachedProvider' = <<"injected">>
    /\ wire(i, h)
    /\ last' = Step("modalResolve", i, "")
    /\ UNCHANGED <<connected, address, chainChanged, iframe, timers, boot>>

\* web3Modal.connect() rejects (the user closed the picker): the await on
\* line 124 throws and connect()'s promise rejects
ModalReject(i) ==
    /\ pc[i] = "awaitModal"
    /\ pc' = [pc EXCEPT ![i] = "done"]
    /\ last' = Step("modalReject", i, "ConnectorRejected")
    /\ UNCHANGED <<connected, address, provider, chainChanged, cachedProvider,
                   iframe, listeners, timers, raw, boot>>

\* getAddress() resolves: lines 137-142, one synchronous run
AddressResolve(i) ==
    /\ pc[i] = "awaitAddress"
    /\ address' = getAddress(raw[i])
    /\ connected' = TRUE
    /\ pc' = [pc EXCEPT ![i] = "done"]
    /\ raw' = [raw EXCEPT ![i] = NoRaw]
    /\ last' = Step("addressResolve", i, "connectedProvider")
    /\ UNCHANGED <<provider, chainChanged, cachedProvider, iframe, listeners,
                   timers, boot>>

\* mutant: the error is swallowed and the session is marked connected
AddressReject_swallowed(i) ==
    /\ pc[i] = "awaitAddress"
    /\ pc' = [pc EXCEPT ![i] = "done"]
    /\ raw' = [raw EXCEPT ![i] = NoRaw]
    /\ connected' = TRUE
    /\ last' = Step("addressReject", i, "SignerUnavailable")
    /\ UNCHANGED <<address, provider, chainChanged, cachedProvider,
                   iframe, listeners, timers, boot>>

\* getAddress() rejects (locked wallet): the await on line 133 throws and
\* connect()'s promise rejects
AddressReject(i) ==
    /\ pc[i] = "awaitAddress"
    /\ pc' = [pc EXCEPT ![i] = "done"]
    /\ raw' = [raw EXCEPT ![i] = NoRaw]
    /\ last' = Step("addressReject", i, "SignerUnavailable")
    /\ UNCHANGED <<connected, address, provider, chainChanged, cachedProvider,
                   iframe, listeners, timers, boot>>

\* mutant: the connector's cache is not cleared
disconnect_keepsCache ==
    /\ timers < MaxTimers
    /\ connected' = FALSE
    /\ timers' = timers + 1
    /\ last' = Step("disconnect", 0, "")
    /\ UNCHANGED <<address, provider, chainChanged, cachedProvider, iframe,
                   listeners, pc, raw, boot>>

\* mutant: the provider cell is emptied on disconnect
disconnect_nullsProvider ==
    /\ timers < MaxTimers
    /\ cachedProvider' = EmptyString
    /\ connected' = FALSE
    /\ provider' = NullProvider
    /\ timers' = timers + 1
    /\ last' = Step("disconnect", 0, "")
    /\ UNCHANGED <<address, chainChanged, iframe, listeners, pc, raw, boot>>

\* mutant: disconnect puts the stub provider back
disconnect_resetsProvider ==
    /\ timers < MaxTimers
    /\ cachedProvider' = EmptyString
    /\ connected' = FALSE
    /\ provider' = StaticJsonRpcProvider
    /\ timers' = timers + 1
    /\ last' = Step("disconnect", 0, "")
    /\ UNCHANGED <<address, chainChanged, iframe, listeners, pc, raw, boot>>

\* ---- disconnect ----
disconnect ==
    /\ timers < MaxTimers
    /\ cachedProvider' = EmptyString
    /\ connected' = FALSE
    /\ timers' = timers + 1
    /\ last' = Step("disconnect", 0, "")
    /\ UNCHANGED <<address, provider, chainChanged, iframe, listeners, pc, raw,
                   boot>>

\* ---- the mount effect ----
\* NodeHelper.checkAllNodesStatus(networkId): one result per candidate, in
\* the candidates' order, the candidate's URI or false
checkAllNodesStatus ==
    {r \in [1..MaxCandidates -> {Uri(k) : k \in 1..MaxCandidates} \cup {JSFalse}] :
        \A k \in 1..MaxCandidates : r[k] \in {Uri(k), JSFalse}}

\* validNodes.filter(url => url !== false)
filter(nodes) == SelectSeq(nodes, LAMBDA url : url # JSFalse)

\* validNodes.includes(x)
includes(nodes, x) == \E k \in 1..Len(nodes) : nodes[k] = x

\* mutant: one reload per invalid candidate
reconcile_perInvalid(nodes, uri, retryOnInvalid) ==
    IF ~includes(filter(nodes), uri) /\ retryOnInvalid
        THEN Len(nodes) - Len(filter(nodes))
        ELSE 0

\* mutant: the retry policy is not consulted
reconcile_noPolicy(nodes, uri, retryOnInvalid) ==
    IF ~includes(filter(nodes), uri) THEN 1 ELSE 0

\* lines 183-189: the number of reloads the callback schedules
reconcile(nodes, uri, retryOnInvalid) ==
    IF ~includes(filter(nodes), uri) /\ retryOnInvalid THEN 1 ELSE 0

\* the health check's promise resolves with all the results and the .then
\* callback runs; uri is store.getState().network.uri at that time
HealthCheckResolve(nodes, uri, retryOnInvalid) ==
    /\ boot = "probing"
    /\ timers + reconcile(nodes, uri, retryOnInvalid) <= MaxTimers
    /\ boot' = "done"
    /\ timers' = timers + reconcile(nodes, uri, retryOnInvalid)
    /\ last' = [op |-> "healthCheck", i |-> 0, ret |-> "",
                stale |-> \A k \in 1..Len(nodes) : nodes[k] # uri,
                retry |-> retryOnInvalid]
    /\ UNCHANGED <<connected, address, provider, chainChanged, cachedProvider,
                   iframe, listeners, pc, raw>>

\* ---- window.location.reload() ----
\* a pending timer fires: the page is torn down and the provider mounts anew
Reload ==
    /\ timers > 0
    /\ connected' = Mounted.connected
    /\ address' = Mounted.address
    /\ provider' = Mounted.provider
    /\ chainChanged' = Mounted.chainChanged
    /\ listeners' = Mounted.listeners
    /\ timers' = Mounted.timers
    /\ pc' = Mounted.pc
    /\ raw' = Mounted.raw
    /\ boot' = Mounted.boot
    /\ last' = Step("reload", 0, "")
    /\ UNCHANGED <<cachedProvider, iframe>>

Next ==
    \/ HasCachedProviderCall
    \/ onChainChangeComplete
    \/ \E h \in RawProviders :
         \E kind \in {"accountsChanged", "chainChanged", "networkChanged"} :
            ProviderEvent(h, kind)
    \/ \E i \in Calls : connect(i)
    \/ \E i \in Calls : \E h \in Injected : ModalResolve(i, h)
    \/ \E i \in Calls : ModalReject(i)
    \/ \E i \in Calls : AddressResolve(i)
    \/ \E i \in Calls : AddressReject(i)
    \/ disconnect
    \/ \E nodes \in checkAllNodesStatus : \E uri \in Uris :
         \E retryOnInvalid \in BOOLEAN :
            HealthCheckResolve(nodes, uri, retryOnInvalid)
    \/ Reload

Spec == Init /\ [][Next]_vars

\* setTimeout callbacks run: a pending reload timer fires unless the page
\* was reloaded first
FairSpec == Spec /\ WF_vars(Reload)

TypeOK ==
    /\ connected \in BOOLEAN
    /\ chainChanged \in BOOLEAN
    /\ iframe \in BOOLEAN
    /\ \A h \in RawProviders : listeners[h] \in 0..MaxCalls
    /\ timers \in 0..MaxTimers
    /\ \A i \in Calls : pc[i] \in {"idle", "awaitModal", "awaitAddress", "done"}

\* ---------------------------------------------------------------------
\* Properties
\* ---------------------------------------------------------------------

\* no connect() invocation is in flight
Settled == \A i \in Calls : pc[i] \in {"idle", "done"}

\* C1: whenever every connect() and disconnect() call has finished its state
\* updates, address is non-empty if and only if connected is true.
C1_AddressIffConnected ==
    Settled => ((address # EmptyString) <=> connected)

\* C2 (as stated): at mount, before any event or operation, chainChanged is
\* false.
C2_StartsFalse ==
    last.op \in {"mount", "reload"} => chainChanged = FALSE

\* C2 (amended): at mount, before any event or operation, chainChanged is
\* true.
C2_StartsTrue ==
    last.op \in {"mount", "reload"} => chainChanged = TRUE

C2_Witness ==
    /\ last.op \in {"mount", "reload"}
    /\ boot = "probing"
    /\ \A i \in Calls : pc[i] = "idle"
    /\ chainChanged

\* C3: a chainChanged or networkChanged event on a wired raw provider leaves
\* the flag true; the only step that takes the flag from true to false is
\* onChainChangeComplete(), and that step always leaves it false.
C3_FlagSetByEventsClearedByComplete ==
    [][/\ (last'.op \in {"chainChanged", "networkChanged"} => chainChanged')
       /\ (chainChanged /\ ~chainChanged' => last'.op = "onChainChangeComplete")
       /\ (last'.op = "onChainChangeComplete" => ~chainChanged')]_vars

C3_Witness ==
    /\ last.op = "networkChanged"
    /\ chainChanged
    /\ \E h \in RawProviders : listeners[h] > 0

C5_DisconnectResetsSession ==
    last.op = "disconnect" =>
        /\ ~connected
        /\ address = EmptyString
        /\ timers > 0

\* C6: when the configured URI is not among the non-false results of the
\* health check and the retry policy is on, the mount effect's callback
\* schedules exactly one reload; it runs once per mount, on the complete
\* list of results.
C6_OneReloadWhenStale ==
    [][last'.op = "healthCheck" =>
          /\ boot = "probing"
          /\ boot' = "done"
          /\ (last'.stale /\ last'.retry => timers' = timers + 1)]_vars

C6_Witness ==
    /\ last.op = "healthCheck"
    /\ last.stale
    /\ last.retry
    /\ timers > 0

\* the scenario of the specification: results ["https://a", false]
ScenarioNodes == <<Uri(1), JSFalse>>

\* C7: when the configured URI is among the non-false results, or the retry
\* policy is off, the mount effect's callback schedules no reload and
\* changes none of connected, address, provider and chainChanged; with
\* results [a, false], endpoint a gives no reload and endpoint b gives one.
C7_NoReloadWhenValidOrNoRetry ==
    /\ reconcile(ScenarioNodes, Uri(1), TRUE) = 0
    /\ reconcile(ScenarioNodes, Uri(2), TRUE) = 1
    /\ [][last'.op = "healthCheck" =>
            /\ (~last'.stale \/ ~last'.retry => timers' = timers)
            /\ UNCHANGED <<connected, address, provider, chainChanged>>]_vars

C7_Witness ==
    /\ last.op = "healthCheck"
    /\ last.stale
    /\ ~last.retry
    /\ timers = 0

\* C8: in an iframe every connect() takes its raw provider from a new
\* IFrameEthereumProvider and never awaits web3Modal.connect(); outside an
\* iframe every connect() awaits web3Modal.connect() and never builds an
\* IFrameEthereumProvider.
C8_ProviderSourceFollowsIframe ==
    /\ iframe =>
          /\ \A i \in Calls : pc[i] # "awaitModal" /\ raw[i].kind \in {"none", "iframe"}
          /\ provider.raw.kind \in {"none", "iframe"}
          /\ last.op # "modalResolve"
          /\ (last.op = "connect" => last.ret = "bridge" /\ raw[last.i] = Frame(last.i))
    /\ ~iframe =>
          /\ \A i \in Calls : raw[i].kind \in {"none", "injected"}
          /\ provider.raw.kind \in {"none", "injected"}
          /\ (last.op = "connect" => last.ret = "picker" /\ pc[last.i] = "awaitModal")

C8_Witness ==
    /\ iframe
    /\ connected
    /\ provider.raw.kind = "iframe"
    /\ address = getAddress(provider.raw)

\* C9: no state has the provider of a connect() still in flight published
\* while connected is not yet true or address is not yet that connect()'s
\* address.
C9_AtomicPublication ==
    \A i \in Calls :
        pc[i] = "awaitAddress" /\ provider = Web3Provider(raw[i]) =>
            connected /\ address = getAddress(raw[i])

\* C10: when the picker rejects or getAddress() rejects, connect() rejects
\* with that error, connected and address are as before, the invocation is
\* over, and no picker is opened and no listener registered by that step.
C10_FailureSurfacedNotRetried ==
    [][last'.op \in {"modalReject", "addressReject"} =>
          /\ last'.ret = (IF last'.op = "modalReject"
                              THEN "ConnectorRejected"
                              ELSE "SignerUnavailable")
          /\ UNCHANGED <<connected, address>>
          /\ pc[last'.i] \in {"awaitModal", "awaitAddress"}
          /\ pc'[last'.i] = "done"
          /\ \A j \in Calls : j # last'.i => pc'[j] = pc[j]
          /\ UNCHANGED listeners]_vars

C10_Witness ==
    /\ last.op = "addressReject"
    /\ last.ret = "SignerUnavailable"
    /\ pc[last.i] = "done"
    /\ ~connected
    /\ address = EmptyString

\* C11: provider is never null: it is the StaticJsonRpcProvider stub at
\* mount and a Web3Provider around a raw provider afterwards, whatever
\* operation or callback ran.
C11_ProviderNeverNull ==
    /\ provider # NullProvider
    /\ provider.kind \in {"static", "web3"}
    /\ (provider.kind = "web3" => provider.raw \in RawProviders)
    /\ (last.op \in {"mount", "reload"} => provider = StaticJsonRpcProvider)

C11_Witness ==
    /\ last.op = "disconnect"
    /\ provider.kind = "web3"
    /\ ~connected

\* C12: when a connect() resolves while connected is already true, and no
\* connect() is then left in flight, address is the address of the signer
\* of the published provider (the two come from the same invocation).
C12_OverlappingConnectsConsistent ==
    [][last'.op = "addressResolve" /\ connected /\ Settled' =>
          connected' /\ address' = getAddress(provider'.raw)]_vars

\* C13: a raw provider without `on` gets no handler registered, and the
\* connect() that obtained it goes on as any other: it publishes the
\* Web3Provider around it, then sets the address and connected and returns
\* the provider.
C13_NoSubscriptionSkipsWiring ==
    /\ [](\A h \in RawProviders : ~h.on => listeners[h] = 0)
    /\ [][/\ (last'.op = "modalResolve" /\ ~raw'[last'.i].on =>
                /\ UNCHANGED listeners
                /\ provider' = Web3Provider(raw'[last'.i])
                /\ pc'[last'.i] = "awaitAddress")
          /\ (last'.op = "addressResolve" /\ ~raw[last'.i].on =>
                /\ connected'
                /\ address' = getAddress(raw[last'.i])
                /\ last'.ret = "connectedProvider")]_vars

C13_Witness ==
    /\ last.op = "addressResolve"
    /\ provider.raw.kind = "injected"
    /\ ~provider.raw.on
    /\ connected
    /\ address = getAddress(provider.raw)

Events == {"accountsChanged", "chainChanged", "networkChanged"}

\* C14: an accountsChanged event on a wired raw provider schedules a
\* reload, which later fires, and the handler changes none of connected,
\* address, provider and chainChanged.
C14_AccountsChangedReloads ==
    /\ [][last'.op = "accountsChanged" =>
            /\ timers' > timers
            /\ UNCHANGED <<connected, address, provider, chainChanged>>]_vars
    /\ [][timers > 0 => timers' > 0 \/ last'.op = "reload"]_vars
    /\ ((last.op = "accountsChanged") ~> (last.op = "reload"))

C14_Witness ==
    /\ last.op = "accountsChanged"
    /\ timers > 0
    /\ connected
    /\ address # EmptyString

\* C15: a chainChanged event and a networkChanged event each leave
\* chainChanged true, schedule no reload, and leave connected, address,
\* provider and the connector's cache as they were.
C15_ChainEventsOnlySetFlag ==
    [][last'.op \in {"chainChanged", "networkChanged"} =>
          /\ chainChanged'
          /\ UNCHANGED <<timers, connected, address, provider, cachedProvider>>
          /\ UNCHANGED <<listeners, pc, raw, boot>>]_vars

C15_Witness ==
    /\ last.op = "chainChanged"
    /\ chainChanged
    /\ connected
    /\ timers = 0

\* C16: disconnect() called while connected is false leaves connected,
\* address, provider and chainChanged as they were, leaves a cleared cache
\* cleared, and schedules one reload; a disconnect() right after a
\* disconnect() changes nothing but the pending reloads.
C16_DisconnectIdempotent ==
    [][last'.op = "disconnect" /\ ~connected =>
          /\ UNCHANGED <<connected, address, provider, chainChanged>>
          /\ (~hasCachedProvider => UNCHANGED cachedProvider)
          /\ timers' = timers + 1
          /\ (last.op = "disconnect" =>
                UNCHANGED <<connected, address, provider, chainChanged,
                            cachedProvider, listeners, pc, raw, boot>>)]_vars

C16_Witness ==
    /\ last.op = "disconnect"
    /\ timers > 1
    /\ ~connected
    /\ provider.kind = "web3"
    /\ address # EmptyString

\* C17: the session starts disconnected with an empty address; connected,
\* address and provider change only in steps of connect() and disconnect()
\* (and are put back to their initial values by a page reload), never in a
\* provider event, the health check, hasCachedProvider() or
\* onChainChangeComplete(); connected becomes true only in the step where a
\* connect()'s getAddress() resolved, which ends that connect().
C17_SessionWrittenOnlyByConnectDisconnect ==
    /\ [](last.op \in {"mount", "reload"} => ~connected /\ address = EmptyString)
    /\ [][/\ (last'.op \in Events \cup {"healthCheck", "hasCachedProvider",
                                        "onChainChangeComplete"} =>
                UNCHANGED <<connected, address, provider>>)
          /\ (~connected /\ connected' =>
                /\ last'.op = "addressResolve"
                /\ pc[last'.i] = "awaitAddress"
                /\ pc'[last'.i] = "done"
                /\ address' # EmptyString)]_vars

C17_Witness ==
    /\ last.op = "onChainChangeComplete"
    /\ connected
    /\ address = getAddress(provider.raw)
    /\ boot = "done"

\* C18: after the first connect() of a page load has failed, the session
\* is as it was before the call: connected false, address empty, the stub
\* provider; and when it was the picker that rejected, no listener is
\* registered and chainChanged is as before.
C18_FailedConnectLeavesSession ==
    /\ (last.op \in {"modalReject", "addressReject"} /\ last.i = 1
          /\ \A j \in Calls : j # 1 => pc[j] = "idle") =>
            /\ ~connected
            /\ address = EmptyString
            /\ provider = StaticJsonRpcProvider
    /\ (last.op = "modalReject" /\ last.i = 1
          /\ \A j \in Calls : j # 1 => pc[j] = "idle") =>
            \A h \in RawProviders : listeners[h] = 0

\* C19: an event has an effect only when it comes from the raw provider of
\* the published provider and no disconnect() has just run, and an
\* accountsChanged event schedules one reload however often its raw
\* provider was connected.
C19_OnlyCurrentProviderOnce ==
    [][\A h \in RawProviders : \A kind \in Events :
          ProviderEvent(h, kind) =>
              /\ (provider.raw # h \/ last.op = "disconnect" =>
                    UNCHANGED <<chainChanged, timers>>)
              /\ (kind = "accountsChanged" => timers' = timers + 1)]_vars

====
